---- MODULE Spec2Model ----
(***************************************************************************)
(* Model of package csv (earthboundkid/csv v2): Options.Rows, the Row      *)
(* accessors Field and Fields, Options.ReadAll, the record mapper (Scan,   *)
(* Row.Scan, ScanAll), the field delimiter, and the older FieldReader.     *)
(* The tokenizer is encoding/csv's Reader as configured by Options.Rows.   *)
(***************************************************************************)
EXTENDS Integers, Sequences, FiniteSets, TLC

(* ---------------------------- bounds ----------------------------------- *)

\* longest input stream, in lines
MaxRecs == 3
\* widest record of the input stream
MaxFields == 2
\* longest explicit Options.FieldNames
MaxNames == 2
\* longest line of an input text, in characters
MaxRaw == 3

\* the strings that occur as column names and as field values
Strings == {"a", "b"}
\* a column name that no header and no FieldNames list contains
Unknown == "zz"

(* ---------------------------- values ----------------------------------- *)

\* error values returned by csv.Reader.Read
NoErr == "nil"
EOF == "io.EOF"
ErrFieldCount == "csv.ErrFieldCount"
ErrParse == "csv.ParseError"
ErrInvalidDelim == "csv: invalid field or comment delimiter"

\* the value of Options.Comma that asks for 0x00 as the field separator
NULL == -1

SeqsUpTo(S, n) == UNION {[1..k -> S] : k \in 0..n}

\* a record is never empty: encoding/csv skips empty lines
Records == SeqsUpTo(Strings, MaxFields) \ {<<>>}

\* what o.Reader holds next: a line that parses into a record, a line the
\* tokenizer cannot parse, or the end of the stream
BadLine == [kind |-> "bad", rec |-> <<>>]
EndOfStream == [kind |-> "eof", rec |-> <<>>]
Lines == [kind : {"record"}, rec : Records] \cup {BadLine}

\* Options.FieldNames: nil, or a (possibly empty) list of names
NilNames == [isNil |-> TRUE, names |-> <<>>]
FieldNamesValues ==
    {NilNames} \cup [isNil : {FALSE}, names : SeqsUpTo(Strings, MaxNames)]

EmptyMap == [x \in {} |-> 0]

\* the elements of the iter.Seq2[*Row, error] returned by Options.Rows
RowElem(rec) == [rowNil |-> FALSE, row |-> rec, err |-> NoErr]
ErrElem(e) == [rowNil |-> TRUE, row |-> <<>>, err |-> e]

VARIABLES
    stream,     \* the lines o.Reader has delivered so far
    o,          \* the Options value
    cr,         \* the csv.Reader made by Rows: FieldsPerRecord, end reached
    reads,      \* number of calls of cr.Read so far
    pc,         \* where the traversal is
    r,          \* the Row of the traversal: idx and row
    yielded,    \* the elements Rows has yielded so far
    stopped,    \* the consumer's yield callback has returned false
    ret,        \* result of the consumer's last Row.Field / Row.Fields call
    panic,      \* the run-time panic that ended the program, if any
    rows,       \* ReadAll: the maps appended so far
    result,     \* ReadAll: what the call returned
    shape,      \* Scan: the type T of the target *T
    v,          \* Scan: the target's field values
    fieldIdx,   \* Scan: the binding plan, nil until it is built
    errs,       \* Scan: the elements of its iter.Seq[error] so far
    fieldReader \* the FieldReader f: FieldNames, idx, row, err

rowsVars == <<stream, o, cr, reads, pc, r, yielded, stopped, ret, panic>>
readAllVars == <<rows, result>>
scanVars == <<shape, v, fieldIdx, errs>>
vars == <<rowsVars, readAllVars, scanVars, fieldReader>>

NoPanic == "none"
PanicIndex == "index out of range"
PanicNilDeref == "nil pointer dereference"
PanicNotStruct == "must scan into pointer to struct"

NoRet == [op |-> "none", name |-> "", val |-> "", map |-> EmptyMap]

(* ---------------------------- csv.Reader ------------------------------- *)

\* csv.NewReader(o.Reader): Comma is ',', FieldsPerRecord is 0, nothing is
\* read
NewReader == [Comma |-> 44, FieldsPerRecord |-> 0, eof |-> FALSE]

\* the delimiters csv.Reader accepts: not 0, not '"', not '\r', not '\n'; the
\* Comment character is left at 0 here, and Comma must differ from it
validDelim(rn) == rn \notin {0, 34, 13, 10}

\* what the next read can find in o.Reader after the lines s: nothing but the
\* end once the end was reached, and the end at the latest after MaxRecs lines
Draw(s, c) ==
    IF c.eof \/ Len(s) >= MaxRecs THEN {EndOfStream}
    ELSE Lines \cup {EndOfStream}

\* cr.Read() finding inp in o.Reader: the next record or an error.  Nothing
\* is read with a delimiter that csv.Reader does not accept.  With
\* FieldsPerRecord = 0 the first record read fixes the number of fields every
\* later record must have.
CrRead(c, s, inp) ==
    IF ~validDelim(c.Comma)
    THEN [rec |-> <<>>, err |-> ErrInvalidDelim, cr |-> c, stream |-> s]
    ELSE IF inp.kind = "eof"
    THEN [rec |-> <<>>, err |-> EOF, cr |-> [c EXCEPT !.eof = TRUE],
          stream |-> s]
    ELSE IF inp.kind = "bad"
    THEN [rec |-> <<>>, err |-> ErrParse, cr |-> c, stream |-> Append(s, inp)]
    ELSE IF c.FieldsPerRecord > 0 /\ Len(inp.rec) # c.FieldsPerRecord
    THEN [rec |-> inp.rec, err |-> ErrFieldCount, cr |-> c,
          stream |-> Append(s, inp)]
    ELSE [rec |-> inp.rec, err |-> NoErr,
          cr |-> [c EXCEPT !.FieldsPerRecord = Len(inp.rec)],
          stream |-> Append(s, inp)]

(* ---------------------------- Options.Rows ----------------------------- *)

\* m[k] = n on a Go map
Put(m, k, n) == [x \in DOMAIN m \cup {k} |-> IF x = k THEN n ELSE m[x]]

\* variant: an earlier occurrence of a name keeps its position
RECURSIVE BuildIdxFirstWinsFrom(_, _, _)
BuildIdxFirstWinsFrom(names, n, m) ==
    IF n > Len(names) THEN m
    ELSE BuildIdxFirstWinsFrom(names, n + 1,
            IF names[n] \in DOMAIN m THEN m ELSE Put(m, names[n], n - 1))

BuildIdxFirstWins(names) == BuildIdxFirstWinsFrom(names, 1, EmptyMap)

RECURSIVE BuildIdxFrom(_, _, _)
BuildIdxFrom(names, n, m) ==
    IF n > Len(names) THEN m
    ELSE BuildIdxFrom(names, n + 1, Put(m, names[n], n - 1))

\* for n, field := range fieldnames { r.idx[field] = n }
BuildIdx(names) == BuildIdxFrom(names, 1, EmptyMap)

\* variant: the header is read when len(o.FieldNames) == 0
RowsHeaderLenCheck(opt, c, s, inp) ==
    IF opt.FieldNames.names = <<>>
    THEN LET rd == CrRead(c, s, inp)
         IN  IF rd.err = EOF
             THEN [next |-> "done", elems |-> <<>>, names |-> <<>>,
                   cr |-> rd.cr, stream |-> rd.stream, reads |-> 1]
             ELSE IF rd.err # NoErr
             THEN [next |-> "done", elems |-> <<ErrElem(rd.err)>>,
                   names |-> <<>>, cr |-> rd.cr, stream |-> rd.stream,
                   reads |-> 1]
             ELSE [next |-> "loop", elems |-> <<>>, names |-> rd.rec,
                   cr |-> rd.cr, stream |-> rd.stream, reads |-> 1]
    ELSE [next |-> "loop", elems |-> <<>>, names |-> opt.FieldNames.names,
          cr |-> c, stream |-> s, reads |-> 0]

\* variant: the header read does not tell io.EOF from other errors
RowsHeaderEOFErr(opt, c, s, inp) ==
    IF opt.FieldNames.isNil
    THEN LET rd == CrRead(c, s, inp)
         IN  IF rd.err # NoErr
             THEN [next |-> "done", elems |-> <<ErrElem(rd.err)>>,
                   names |-> <<>>, cr |-> rd.cr, stream |-> rd.stream,
                   reads |-> 1]
             ELSE [next |-> "loop", elems |-> <<>>, names |-> rd.rec,
                   cr |-> rd.cr, stream |-> rd.stream, reads |-> 1]
    ELSE [next |-> "loop", elems |-> <<>>, names |-> opt.FieldNames.names,
          cr |-> c, stream |-> s, reads |-> 0]

\* the header phase of Rows, resolving the field names, when a header read
\* finds inp
RowsHeader(opt, c, s, inp) ==
    IF opt.FieldNames.isNil
    THEN LET rd == CrRead(c, s, inp)
         IN  IF rd.err = EOF
             THEN [next |-> "done", elems |-> <<>>, names |-> <<>>,
                   cr |-> rd.cr, stream |-> rd.stream, reads |-> 1]
             ELSE IF rd.err # NoErr
             THEN [next |-> "done", elems |-> <<ErrElem(rd.err)>>,
                   names |-> <<>>, cr |-> rd.cr, stream |-> rd.stream,
                   reads |-> 1]
             ELSE [next |-> "loop", elems |-> <<>>, names |-> rd.rec,
                   cr |-> rd.cr, stream |-> rd.stream, reads |-> 1]
    ELSE [next |-> "loop", elems |-> <<>>, names |-> opt.FieldNames.names,
          cr |-> c, stream |-> s, reads |-> 0]

\* variant: r.row = row is missing, the Row keeps its previous record
RowsLoopStaleRow(c, s, row, inp) ==
    LET rd == CrRead(c, s, inp)
    IN  IF rd.err = EOF
        THEN [next |-> "done", elems |-> <<>>, row |-> row, cr |-> rd.cr,
              stream |-> rd.stream]
        ELSE IF rd.err # NoErr
        THEN [next |-> "done", elems |-> <<ErrElem(rd.err)>>, row |-> row,
              cr |-> rd.cr, stream |-> rd.stream]
        ELSE [next |-> "body", elems |-> <<RowElem(row)>>, row |-> row,
              cr |-> rd.cr, stream |-> rd.stream]

\* variant: the return after yield(nil, err) is missing
RowsLoopNoReturn(c, s, row, inp) ==
    LET rd == CrRead(c, s, inp)
    IN  IF rd.err = EOF
        THEN [next |-> "done", elems |-> <<>>, row |-> row, cr |-> rd.cr,
              stream |-> rd.stream]
        ELSE IF rd.err # NoErr
        THEN [next |-> "body", elems |-> <<ErrElem(rd.err)>>, row |-> row,
              cr |-> rd.cr, stream |-> rd.stream]
        ELSE [next |-> "body", elems |-> <<RowElem(rd.rec)>>, row |-> rd.rec,
              cr |-> rd.cr, stream |-> rd.stream]

\* one iteration of the read loop of Rows, up to its yield or return, when
\* the read finds inp
RowsLoop(c, s, row, inp) ==
    LET rd == CrRead(c, s, inp)
    IN  IF rd.err = EOF
        THEN [next |-> "done", elems |-> <<>>, row |-> row, cr |-> rd.cr,
              stream |-> rd.stream]
        ELSE IF rd.err # NoErr
        THEN [next |-> "done", elems |-> <<ErrElem(rd.err)>>, row |-> row,
              cr |-> rd.cr, stream |-> rd.stream]
        ELSE [next |-> "body", elems |-> <<RowElem(rd.rec)>>, row |-> rd.rec,
              cr |-> rd.cr, stream |-> rd.stream]

\* what the header read can find: nothing is read when FieldNames is set
DrawHeader(opt, c, s) ==
    IF RowsHeader(opt, c, s, EndOfStream).reads = 0 THEN {EndOfStream}
    ELSE Draw(s, c)

\* what the first data read can find after the header phase h: nothing is
\* read when Rows returned in its header phase
DrawFirst(h) == IF h.next = "done" THEN {EndOfStream} ELSE Draw(h.stream, h.cr)

\* the delimiter Rows gives the csv.Reader
Configure(opt, c) ==
    IF opt.Comma = NULL THEN [c EXCEPT !.Comma = 0]
    ELSE IF opt.Comma # 0 THEN [c EXCEPT !.Comma = opt.Comma]
    ELSE c

\* Rows from its first statement to its first yield or its return
RowsStart(opt, c, s, inp1, inp2) ==
    LET h == RowsHeader(opt, Configure(opt, c), s, inp1)
    IN  IF h.next = "done"
        THEN [next |-> "done", elems |-> h.elems, cr |-> h.cr,
              stream |-> h.stream, reads |-> h.reads, idx |-> EmptyMap,
              row |-> <<>>]
        ELSE LET l == RowsLoop(h.cr, h.stream, <<>>, inp2)
             IN  [next |-> l.next, elems |-> l.elems, cr |-> l.cr,
                  stream |-> l.stream, reads |-> h.reads + 1,
                  idx |-> BuildIdx(h.names), row |-> l.row]

(* ---------------------------- Row -------------------------------------- *)

\* Row.Field: r.row[idx] panics when idx is not below len(r.row)
Field(row, fieldname) ==
    IF fieldname \in DOMAIN row.idx
    THEN IF row.idx[fieldname] < Len(row.row)
         THEN [panic |-> NoPanic, val |-> row.row[row.idx[fieldname] + 1]]
         ELSE [panic |-> PanicIndex, val |-> ""]
    ELSE [panic |-> NoPanic, val |-> ""]

\* Row.Fields: a fresh map with one entry per key of r.idx
Fields(row) ==
    IF \E key \in DOMAIN row.idx : row.idx[key] >= Len(row.row)
    THEN [panic |-> PanicIndex, map |-> EmptyMap]
    ELSE [panic |-> NoPanic,
          map |-> [key \in DOMAIN row.idx |-> row.row[row.idx[key] + 1]]]

(* ---------------------------- range o.Rows() ---------------------------- *)

NoResult == [returned |-> FALSE, rowsNil |-> TRUE, rows |-> <<>>, err |-> NoErr]
NilFieldIdx == [isNil |-> TRUE, at |-> <<>>]
NoShape == [kind |-> "none", fields |-> <<>>]

\* no FieldReader is in use
NoFieldReader ==
    [FieldNames |-> NilNames, idx |-> [isNil |-> TRUE, map |-> EmptyMap],
     row |-> <<>>, err |-> NoErr]

InitRows ==
    /\ stream = <<>>
    /\ o \in [Comma : {0}, FieldNames : FieldNamesValues]
    /\ cr = NewReader
    /\ reads = 0
    /\ pc = "start"
    /\ r = [idx |-> EmptyMap, row |-> <<>>]
    /\ yielded = <<>>
    /\ stopped = FALSE
    /\ ret = NoRet
    /\ panic = NoPanic
    /\ fieldReader = NoFieldReader

Init ==
    /\ InitRows
    /\ rows = <<>>
    /\ result = NoResult
    /\ shape = NoShape
    /\ v = <<>>
    /\ fieldIdx = NilFieldIdx
    /\ errs = <<>>

\* variant: the header read is stored in o.FieldNames
BeginSetsFieldNames ==
    /\ pc = "start"
    /\ \E inp1 \in DrawHeader(o, cr, stream) :
       \E inp2 \in DrawFirst(RowsHeader(o, cr, stream, inp1)) :
       LET st == RowsStart(o, cr, stream, inp1, inp2)
           h == RowsHeader(o, cr, stream, inp1)
       IN  /\ pc' = st.next
           /\ cr' = st.cr
           /\ stream' = st.stream
           /\ reads' = reads + st.reads
           /\ yielded' = yielded \o st.elems
           /\ r' = [idx |-> st.idx, row |-> st.row]
           /\ o' = IF o.FieldNames.isNil /\ h.next = "loop"
                   THEN [o EXCEPT !.FieldNames =
                            [isNil |-> FALSE, names |-> h.names]]
                   ELSE o
    /\ UNCHANGED <<stopped, ret, panic, readAllVars, scanVars>>
    /\ UNCHANGED fieldReader

\* the consumer starts ranging over o.Rows(): the iterator runs from its
\* first statement to its first yield or to its return
Begin ==
    /\ pc = "start"
    /\ \E inp1 \in DrawHeader(o, cr, stream) :
       \E inp2 \in DrawFirst(RowsHeader(o, cr, stream, inp1)) :
       LET st == RowsStart(o, cr, stream, inp1, inp2)
       IN  /\ pc' = st.next
           /\ cr' = st.cr
           /\ stream' = st.stream
           /\ reads' = reads + st.reads
           /\ yielded' = yielded \o st.elems
           /\ r' = [idx |-> st.idx, row |-> st.row]
    /\ UNCHANGED <<o, stopped, ret, panic, readAllVars, scanVars>>
    /\ UNCHANGED fieldReader

\* variant: the index is built again from every record read
ContinueRebuildsIdx ==
    /\ pc = "body"
    /\ \E inp \in Draw(stream, cr) :
       LET l == RowsLoop(cr, stream, r.row, inp)
       IN  /\ pc' = l.next
           /\ cr' = l.cr
           /\ stream' = l.stream
           /\ reads' = reads + 1
           /\ yielded' = yielded \o l.elems
           /\ r' = [idx |-> BuildIdx(l.row), row |-> l.row]
    /\ ret' = NoRet
    /\ UNCHANGED <<o, stopped, panic, readAllVars, scanVars>>
    /\ UNCHANGED fieldReader

\* the loop body ends and yield returns true: the iterator reads on
Continue ==
    /\ pc = "body"
    /\ \E inp \in Draw(stream, cr) :
       LET l == RowsLoop(cr, stream, r.row, inp)
       IN  /\ pc' = l.next
           /\ cr' = l.cr
           /\ stream' = l.stream
           /\ reads' = reads + 1
           /\ yielded' = yielded \o l.elems
           /\ r' = [r EXCEPT !.row = l.row]
    /\ ret' = NoRet
    /\ UNCHANGED <<o, stopped, panic, readAllVars, scanVars>>
    /\ UNCHANGED fieldReader

\* variant: the result of yield is ignored, the iterator reads once more
BreakReadsOn ==
    /\ pc = "body"
    /\ \E inp \in Draw(stream, cr) :
       LET l == RowsLoop(cr, stream, r.row, inp)
       IN  /\ cr' = l.cr
           /\ stream' = l.stream
           /\ reads' = reads + 1
           /\ yielded' = yielded \o l.elems
           /\ r' = [r EXCEPT !.row = l.row]
    /\ pc' = "done"
    /\ stopped' = TRUE
    /\ ret' = NoRet
    /\ UNCHANGED <<o, panic, readAllVars, scanVars>>
    /\ UNCHANGED fieldReader

\* the loop body breaks and yield returns false: the iterator returns
Break ==
    /\ pc = "body"
    /\ pc' = "done"
    /\ stopped' = TRUE
    /\ ret' = NoRet
    /\ UNCHANGED <<stream, o, cr, reads, r, yielded, panic>>
    /\ UNCHANGED <<readAllVars, scanVars>>
    /\ UNCHANGED fieldReader

\* the loop body calls row.Field(fieldname)
CallField(fieldname) ==
    /\ pc = "body"
    /\ LET f == Field(r, fieldname)
       IN  /\ panic' = f.panic
           /\ pc' = IF f.panic = NoPanic THEN pc ELSE "panicked"
           /\ ret' = [op |-> "Field", name |-> fieldname, val |-> f.val,
                      map |-> EmptyMap]
    /\ UNCHANGED <<stream, o, cr, reads, r, yielded, stopped>>
    /\ UNCHANGED <<readAllVars, scanVars>>
    /\ UNCHANGED fieldReader

\* the loop body calls row.Fields()
CallFields ==
    /\ pc = "body"
    /\ LET f == Fields(r)
       IN  /\ panic' = f.panic
           /\ pc' = IF f.panic = NoPanic THEN pc ELSE "panicked"
           /\ ret' = [op |-> "Fields", name |-> "", val |-> "", map |-> f.map]
    /\ UNCHANGED <<stream, o, cr, reads, r, yielded, stopped>>
    /\ UNCHANGED <<readAllVars, scanVars>>
    /\ UNCHANGED fieldReader

Next ==
    \/ Begin
    \/ Continue
    \/ Break
    \/ \E fieldname \in Strings \cup {Unknown} : CallField(fieldname)
    \/ CallFields

Spec == Init /\ [][Next]_vars

(* ---------------------------- the field delimiter --------------------- *)

\* the characters of the input text: 'a', ',', ';' and the byte 0x00
Chars == {97, 44, 59, 0}
\* the values of Options.Comma: unset, ';', ',' and NULL
Commas == {0, 59, 44, NULL}

\* a line of the input text, without its line end; the tokenizer skips
\* empty lines
RawLines == SeqsUpTo(Chars, MaxRaw) \ {<<>>}

\* the fields of the line raw: the text between the delimiters
RECURSIVE SplitFrom(_, _, _, _, _)
SplitFrom(raw, comma, i, cur, acc) ==
    IF i > Len(raw) THEN Append(acc, cur)
    ELSE IF raw[i] = comma
    THEN SplitFrom(raw, comma, i + 1, <<>>, Append(acc, cur))
    ELSE SplitFrom(raw, comma, i + 1, Append(cur, raw[i]), acc)

Split(raw, comma) == SplitFrom(raw, comma, 1, <<>>, <<>>)

\* what the csv.Reader c finds next in a text: a line, split at c.Comma, or
\* the end of the text
DrawRaw(s, c) ==
    IF c.eof \/ Len(s) >= MaxRecs THEN {EndOfStream}
    ELSE {[kind |-> "record", rec |-> Split(raw, c.Comma), raw |-> raw] :
             raw \in RawLines} \cup {EndOfStream}

InitComma ==
    /\ stream = <<>>
    /\ o \in [Comma : Commas, FieldNames : {NilNames}]
    /\ cr = NewReader
    /\ reads = 0
    /\ pc = "start"
    /\ r = [idx |-> EmptyMap, row |-> <<>>]
    /\ yielded = <<>>
    /\ stopped = FALSE
    /\ ret = NoRet
    /\ panic = NoPanic
    /\ fieldReader = NoFieldReader
    /\ rows = <<>>
    /\ result = NoResult
    /\ shape = NoShape
    /\ v = <<>>
    /\ fieldIdx = NilFieldIdx
    /\ errs = <<>>

\* the consumer starts ranging over o.Rows() on a text
CommaBegin ==
    /\ pc = "start"
    /\ \E inp1 \in DrawRaw(stream, Configure(o, cr)) :
       \E inp2 \in DrawRaw(RowsHeader(o, Configure(o, cr), stream, inp1).stream,
                           RowsHeader(o, Configure(o, cr), stream, inp1).cr) :
       LET st == RowsStart(o, cr, stream, inp1, inp2)
       IN  /\ pc' = st.next
           /\ cr' = st.cr
           /\ stream' = st.stream
           /\ reads' = reads + st.reads
           /\ yielded' = yielded \o st.elems
           /\ r' = [idx |-> st.idx, row |-> st.row]
    /\ UNCHANGED <<o, stopped, ret, panic, readAllVars, scanVars>>
    /\ UNCHANGED fieldReader

\* the loop body ends and yield returns true: the iterator reads on
CommaContinue ==
    /\ pc = "body"
    /\ \E inp \in DrawRaw(stream, cr) :
       LET l == RowsLoop(cr, stream, r.row, inp)
       IN  /\ pc' = l.next
           /\ cr' = l.cr
           /\ stream' = l.stream
           /\ reads' = reads + 1
           /\ yielded' = yielded \o l.elems
           /\ r' = [r EXCEPT !.row = l.row]
    /\ UNCHANGED <<o, stopped, ret, panic, readAllVars, scanVars>>
    /\ UNCHANGED fieldReader

NextComma ==
    \/ CommaBegin
    \/ CommaContinue

SpecComma == InitComma /\ [][NextComma]_vars

(* ---------------------------- Options.ReadAll --------------------------- *)

\* the body of ReadAll's range loop on the element the iterator segment seg
\* yielded, or ReadAll's final return when the iterator returned
ReadAllBody(seg, row, acc) ==
    IF seg.elems = <<>>
    THEN [pc |-> "done", panic |-> NoPanic, rows |-> acc,
          result |-> [returned |-> TRUE, rowsNil |-> acc = <<>>,
                      rows |-> acc, err |-> NoErr]]
    ELSE IF seg.elems[1].err # NoErr
    THEN [pc |-> "done", panic |-> NoPanic, rows |-> acc,
          result |-> [returned |-> TRUE, rowsNil |-> TRUE, rows |-> <<>>,
                      err |-> seg.elems[1].err]]
    ELSE LET f == Fields(row)
         IN  IF f.panic # NoPanic
             THEN [pc |-> "panicked", panic |-> f.panic, rows |-> acc,
                   result |-> NoResult]
             ELSE [pc |-> "loop", panic |-> NoPanic,
                   rows |-> Append(acc, f.map), result |-> NoResult]

InitReadAll ==
    /\ InitRows
    /\ rows = <<>>
    /\ result = NoResult
    /\ shape = NoShape
    /\ v = <<>>
    /\ fieldIdx = NilFieldIdx
    /\ errs = <<>>

\* ReadAll up to the end of the first pass of its loop body
ReadAllBegin ==
    /\ pc = "start"
    /\ \E inp1 \in DrawHeader(o, cr, stream) :
       \E inp2 \in DrawFirst(RowsHeader(o, cr, stream, inp1)) :
       LET st == RowsStart(o, cr, stream, inp1, inp2)
           row == [idx |-> st.idx, row |-> st.row]
           b == ReadAllBody(st, row, rows)
       IN  /\ cr' = st.cr
           /\ stream' = st.stream
           /\ reads' = reads + st.reads
           /\ yielded' = yielded \o st.elems
           /\ r' = row
           /\ pc' = b.pc
           /\ panic' = b.panic
           /\ rows' = b.rows
           /\ result' = b.result
    /\ UNCHANGED <<o, stopped, ret, scanVars>>
    /\ UNCHANGED fieldReader

\* one more pass: the iterator reads on and the loop body runs
ReadAllNext ==
    /\ pc = "loop"
    /\ \E inp \in Draw(stream, cr) :
       LET l == RowsLoop(cr, stream, r.row, inp)
           row == [r EXCEPT !.row = l.row]
           b == ReadAllBody(l, row, rows)
       IN  /\ cr' = l.cr
           /\ stream' = l.stream
           /\ reads' = reads + 1
           /\ yielded' = yielded \o l.elems
           /\ r' = row
           /\ pc' = b.pc
           /\ panic' = b.panic
           /\ rows' = b.rows
           /\ result' = b.result
    /\ UNCHANGED <<o, stopped, ret, scanVars>>
    /\ UNCHANGED fieldReader

NextReadAll ==
    \/ ReadAllBegin
    \/ ReadAllNext

SpecReadAll == InitReadAll /\ [][NextReadAll]_vars

(* ---------------------------- Scan -------------------------------------- *)

\* a struct field: its type, whether it is exported, its csv tag
StructField(typ, exported, tag) ==
    [typ |-> typ, exported |-> exported, tag |-> tag]

\* struct { A string `csv:"a"`; B string `csv:"b"`; C string }
UserShape ==
    [kind |-> "struct",
     fields |-> <<StructField("string", TRUE, "a"),
                  StructField("string", TRUE, "b"),
                  StructField("string", TRUE, "")>>]
\* struct { N int `csv:"a"`; s string `csv:"a"`; C string }
SkippedShape ==
    [kind |-> "struct",
     fields |-> <<StructField("int", TRUE, "a"),
                  StructField("string", FALSE, "a"),
                  StructField("string", TRUE, "")>>]
\* struct{}
EmptyShape == [kind |-> "struct", fields |-> <<>>]
\* T = string
StringShape == [kind |-> "string", fields |-> <<>>]

Shapes == {UserShape, SkippedShape, EmptyShape, StringShape}

\* variant: the type of the field is not looked at
EligibleAnyType(f) == f.exported /\ f.tag # ""

\* the field can be bound: a string, exported, with a csv tag
Eligible(f) == f.typ = "string" /\ f.exported /\ f.tag # ""
HasEligible(sh) == \E i \in 1..Len(sh.fields) : Eligible(sh.fields[i])

\* Row.buildFieldIdx on a *Row that is nil (rowNil) or has the index idx
buildFieldIdx(rowNil, idx, sh) ==
    IF sh.kind # "struct"
    THEN [panic |-> PanicNotStruct, at |-> <<>>]
    ELSE IF rowNil /\ HasEligible(sh)
    THEN [panic |-> PanicNilDeref, at |-> <<>>]
    ELSE [panic |-> NoPanic,
          at |-> [i \in 1..Len(sh.fields) |->
                    IF Eligible(sh.fields[i]) /\ sh.fields[i].tag \in DOMAIN idx
                    THEN idx[sh.fields[i].tag] ELSE -1]]

\* variant: a field without a binding is reset to the empty string
scanClearsUnbound(rec, at, vals) ==
    LET short == {i \in 1..Len(at) : at[i] # -1 /\ at[i] >= Len(rec)}
        stop == IF short = {} THEN Len(at) + 1
                ELSE CHOOSE i \in short : \A j \in short : i <= j
    IN  [panic |-> IF short = {} THEN NoPanic ELSE PanicIndex,
         vals |-> [i \in 1..Len(vals) |->
                    IF i >= stop THEN vals[i]
                    ELSE IF at[i] # -1 THEN rec[at[i] + 1] ELSE ""]]

\* Row.scan: the bound fields are set in order; r.row[idx] panics when the
\* record is too short, after the fields before it were set
scan(rec, at, vals) ==
    LET short == {i \in 1..Len(at) : at[i] # -1 /\ at[i] >= Len(rec)}
        stop == IF short = {} THEN Len(at) + 1
                ELSE CHOOSE i \in short : \A j \in short : i <= j
    IN  [panic |-> IF short = {} THEN NoPanic ELSE PanicIndex,
         vals |-> [i \in 1..Len(vals) |->
                    IF i < stop /\ at[i] # -1 THEN rec[at[i] + 1]
                    ELSE vals[i]]]

\* variant: the plan is built when len(fieldIdx) == 0
ScanBodyLenCheck(seg, row, plan, vals, sh) ==
    IF seg.elems = <<>>
    THEN [pc |-> "done", panic |-> NoPanic, fieldIdx |-> plan, v |-> vals,
          errs |-> <<>>]
    ELSE LET e == seg.elems[1]
             b == IF plan.at = <<>> THEN buildFieldIdx(e.rowNil, row.idx, sh)
                  ELSE [panic |-> NoPanic, at |-> plan.at]
             built == [isNil |-> b.at = <<>>, at |-> b.at]
         IN  IF b.panic # NoPanic
             THEN [pc |-> "panicked", panic |-> b.panic, fieldIdx |-> plan,
                   v |-> vals, errs |-> <<>>]
             ELSE IF e.err # NoErr
             THEN [pc |-> "done", panic |-> NoPanic, fieldIdx |-> built,
                   v |-> vals, errs |-> <<e.err>>]
             ELSE LET sc == scan(row.row, b.at, vals)
                  IN  IF sc.panic # NoPanic
                      THEN [pc |-> "panicked", panic |-> sc.panic,
                            fieldIdx |-> built, v |-> sc.vals, errs |-> <<>>]
                      ELSE [pc |-> "scanbody", panic |-> NoPanic,
                            fieldIdx |-> built, v |-> sc.vals,
                            errs |-> <<NoErr>>]

\* the body of Scan's range loop on the element the iterator segment seg
\* yielded, or Scan's return when the iterator returned
ScanBody(seg, row, plan, vals, sh) ==
    IF seg.elems = <<>>
    THEN [pc |-> "done", panic |-> NoPanic, fieldIdx |-> plan, v |-> vals,
          errs |-> <<>>]
    ELSE LET e == seg.elems[1]
             b == IF plan.isNil THEN buildFieldIdx(e.rowNil, row.idx, sh)
                  ELSE [panic |-> NoPanic, at |-> plan.at]
             built == [isNil |-> FALSE, at |-> b.at]
         IN  IF b.panic # NoPanic
             THEN [pc |-> "panicked", panic |-> b.panic, fieldIdx |-> plan,
                   v |-> vals, errs |-> <<>>]
             ELSE IF e.err # NoErr
             THEN [pc |-> "done", panic |-> NoPanic, fieldIdx |-> built,
                   v |-> vals, errs |-> <<e.err>>]
             ELSE LET sc == scan(row.row, b.at, vals)
                  IN  IF sc.panic # NoPanic
                      THEN [pc |-> "panicked", panic |-> sc.panic,
                            fieldIdx |-> built, v |-> sc.vals, errs |-> <<>>]
                      ELSE [pc |-> "scanbody", panic |-> NoPanic,
                            fieldIdx |-> built, v |-> sc.vals,
                            errs |-> <<NoErr>>]

\* what the caller's record holds before the traversal
InitialValues(sh) ==
    {[i \in 1..Len(sh.fields) |-> x] : x \in {"", "old"}}

InitScan ==
    /\ InitRows
    /\ rows = <<>>
    /\ result = NoResult
    /\ shape \in Shapes
    /\ v \in InitialValues(shape)
    /\ fieldIdx = NilFieldIdx
    /\ errs = <<>>

\* the consumer starts ranging over Scan(o, &v)
ScanBegin ==
    /\ pc = "start"
    /\ \E inp1 \in DrawHeader(o, cr, stream) :
       \E inp2 \in DrawFirst(RowsHeader(o, cr, stream, inp1)) :
       LET st == RowsStart(o, cr, stream, inp1, inp2)
           row == [idx |-> st.idx, row |-> st.row]
           b == ScanBody(st, row, fieldIdx, v, shape)
       IN  /\ cr' = st.cr
           /\ stream' = st.stream
           /\ reads' = reads + st.reads
           /\ yielded' = yielded \o st.elems
           /\ r' = row
           /\ pc' = b.pc
           /\ panic' = b.panic
           /\ fieldIdx' = b.fieldIdx
           /\ v' = b.v
           /\ errs' = errs \o b.errs
    /\ UNCHANGED <<o, stopped, ret, readAllVars, shape>>
    /\ UNCHANGED fieldReader

\* the consumer's loop body ends: yield returns true in Scan and in Rows
ScanNext ==
    /\ pc = "scanbody"
    /\ \E inp \in Draw(stream, cr) :
       LET l == RowsLoop(cr, stream, r.row, inp)
           row == [r EXCEPT !.row = l.row]
           b == ScanBody(l, row, fieldIdx, v, shape)
       IN  /\ cr' = l.cr
           /\ stream' = l.stream
           /\ reads' = reads + 1
           /\ yielded' = yielded \o l.elems
           /\ r' = row
           /\ pc' = b.pc
           /\ panic' = b.panic
           /\ fieldIdx' = b.fieldIdx
           /\ v' = b.v
           /\ errs' = errs \o b.errs
    /\ UNCHANGED <<o, stopped, ret, readAllVars, shape>>
    /\ UNCHANGED fieldReader

\* the consumer's loop body breaks: Scan returns and so does Rows
ScanBreak ==
    /\ pc = "scanbody"
    /\ pc' = "done"
    /\ stopped' = TRUE
    /\ UNCHANGED <<stream, o, cr, reads, r, yielded, ret, panic>>
    /\ UNCHANGED <<readAllVars, scanVars>>
    /\ UNCHANGED fieldReader

NextScan ==
    \/ ScanBegin
    \/ ScanNext
    \/ ScanBreak

SpecScan == InitScan /\ [][NextScan]_vars

(* ---------------------------- Row.Scan ---------------------------------- *)

\* what reflect sees of the argument v of Row.Scan: the struct behind the
\* pointer &x, or something that is not a pointer when x itself is passed
Target(sh, byPointer) ==
    IF byPointer THEN sh ELSE [kind |-> "nonpointer", fields |-> sh.fields]

\* Row.Scan(v): r.scan(r.buildFieldIdx(v))
RowScan(row, target, vals) ==
    LET b == buildFieldIdx(FALSE, row.idx, target)
    IN  IF b.panic # NoPanic
        THEN [panic |-> b.panic, vals |-> vals]
        ELSE scan(row.row, b.at, vals)

\* the body of a range loop over o.Rows() that stops at an error and calls
\* row.Scan on every row, or the end of the loop when the iterator returned
RowScanBody(seg, row, target, vals) ==
    IF seg.elems = <<>> \/ seg.elems[1].err # NoErr
    THEN [pc |-> "done", panic |-> NoPanic, v |-> vals]
    ELSE LET sc == RowScan(row, target, vals)
         IN  [pc |-> IF sc.panic = NoPanic THEN "rowscanbody" ELSE "panicked",
              panic |-> sc.panic, v |-> sc.vals]

\* the consumer starts ranging over o.Rows() with row.Scan in the loop body
RowScanBegin ==
    /\ pc = "start"
    /\ \E inp1 \in DrawHeader(o, cr, stream) :
       \E inp2 \in DrawFirst(RowsHeader(o, cr, stream, inp1)) :
       \E byPointer \in BOOLEAN :
       LET st == RowsStart(o, cr, stream, inp1, inp2)
           row == [idx |-> st.idx, row |-> st.row]
           b == RowScanBody(st, row, Target(shape, byPointer), v)
       IN  /\ cr' = st.cr
           /\ stream' = st.stream
           /\ reads' = reads + st.reads
           /\ yielded' = yielded \o st.elems
           /\ r' = row
           /\ pc' = b.pc
           /\ panic' = b.panic
           /\ v' = b.v
    /\ UNCHANGED <<o, stopped, ret, readAllVars, shape, fieldIdx, errs>>
    /\ UNCHANGED fieldReader

\* the loop body ends: the iterator reads on and the body runs again
RowScanNext ==
    /\ pc = "rowscanbody"
    /\ \E inp \in Draw(stream, cr) :
       \E byPointer \in BOOLEAN :
       LET l == RowsLoop(cr, stream, r.row, inp)
           row == [r EXCEPT !.row = l.row]
           b == RowScanBody(l, row, Target(shape, byPointer), v)
       IN  /\ cr' = l.cr
           /\ stream' = l.stream
           /\ reads' = reads + 1
           /\ yielded' = yielded \o l.elems
           /\ r' = row
           /\ pc' = b.pc
           /\ panic' = b.panic
           /\ v' = b.v
    /\ UNCHANGED <<o, stopped, ret, readAllVars, shape, fieldIdx, errs>>
    /\ UNCHANGED fieldReader

NextRowScan ==
    \/ RowScanBegin
    \/ RowScanNext

\* a traversal that scans rows into a record: with Scan(o, &v), or with
\* row.Scan in the body of a loop over o.Rows()
NextScanning ==
    \/ NextScan
    \/ NextRowScan

\* the caller's record holds values of earlier use in every field
InitScanning ==
    /\ InitRows
    /\ rows = <<>>
    /\ result = NoResult
    /\ shape \in Shapes
    /\ v = [i \in 1..Len(shape.fields) |-> "old"]
    /\ fieldIdx = NilFieldIdx
    /\ errs = <<>>

SpecScanning == InitScanning /\ [][NextScanning]_vars

(* ---------------------------- ScanAll ----------------------------------- *)

\* var v T: every string field holds the empty string
ZeroValue(sh) == [i \in 1..Len(sh.fields) |-> ""]

\* the body of ScanAll's range loop over Scan(o, &v) on what one pass of
\* Scan's loop did: Scan panicked, returned, yielded an error, or scanned a
\* row into v and yielded nil, on which a copy of v is appended
ScanAllBody(b, acc) ==
    IF b.pc = "panicked"
    THEN [pc |-> "panicked", rows |-> acc, result |-> NoResult]
    ELSE IF b.errs = <<>>
    THEN [pc |-> "done", rows |-> acc,
          result |-> [returned |-> TRUE, rowsNil |-> acc = <<>>,
                      rows |-> acc, err |-> NoErr]]
    ELSE IF b.errs[1] # NoErr
    THEN [pc |-> "done", rows |-> acc,
          result |-> [returned |-> TRUE, rowsNil |-> TRUE, rows |-> <<>>,
                      err |-> b.errs[1]]]
    ELSE [pc |-> "scanallloop", rows |-> Append(acc, b.v),
          result |-> NoResult]

InitScanAll ==
    /\ InitRows
    /\ rows = <<>>
    /\ result = NoResult
    /\ shape \in Shapes
    /\ v = ZeroValue(shape)
    /\ fieldIdx = NilFieldIdx
    /\ errs = <<>>

\* ScanAll up to the end of the first pass of its loop body
ScanAllBegin ==
    /\ pc = "start"
    /\ \E inp1 \in DrawHeader(o, cr, stream) :
       \E inp2 \in DrawFirst(RowsHeader(o, cr, stream, inp1)) :
       LET st == RowsStart(o, cr, stream, inp1, inp2)
           row == [idx |-> st.idx, row |-> st.row]
           b == ScanBody(st, row, fieldIdx, v, shape)
           a == ScanAllBody(b, rows)
       IN  /\ cr' = st.cr
           /\ stream' = st.stream
           /\ reads' = reads + st.reads
           /\ yielded' = yielded \o st.elems
           /\ r' = row
           /\ pc' = a.pc
           /\ panic' = b.panic
           /\ fieldIdx' = b.fieldIdx
           /\ v' = b.v
           /\ errs' = errs \o b.errs
           /\ rows' = a.rows
           /\ result' = a.result
    /\ UNCHANGED <<o, stopped, ret, shape>>
    /\ UNCHANGED fieldReader

\* one more pass: Rows reads on, Scan's loop body and ScanAll's run
ScanAllNext ==
    /\ pc = "scanallloop"
    /\ \E inp \in Draw(stream, cr) :
       LET l == RowsLoop(cr, stream, r.row, inp)
           row == [r EXCEPT !.row = l.row]
           b == ScanBody(l, row, fieldIdx, v, shape)
           a == ScanAllBody(b, rows)
       IN  /\ cr' = l.cr
           /\ stream' = l.stream
           /\ reads' = reads + 1
           /\ yielded' = yielded \o l.elems
           /\ r' = row
           /\ pc' = a.pc
           /\ panic' = b.panic
           /\ fieldIdx' = b.fieldIdx
           /\ v' = b.v
           /\ errs' = errs \o b.errs
           /\ rows' = a.rows
           /\ result' = a.result
    /\ UNCHANGED <<o, stopped, ret, shape>>
    /\ UNCHANGED fieldReader

NextScanAll ==
    \/ ScanAllBegin
    \/ ScanAllNext

SpecScanAll == InitScanAll /\ [][NextScanAll]_vars

(* ---------------------------- FieldReader ------------------------------- *)

\* the header phase of FieldReader.Scan when a header read finds inp: the
\* read's record becomes f.FieldNames and its error f.err
FieldReaderHeader(fr, c, s, inp) ==
    IF fr.FieldNames.isNil
    THEN LET rd == CrRead(c, s, inp)
         IN  [f |-> [fr EXCEPT !.FieldNames =
                                  IF rd.err = NoErr
                                  THEN [isNil |-> FALSE, names |-> rd.rec]
                                  ELSE NilNames,
                               !.err = rd.err],
              cr |-> rd.cr, stream |-> rd.stream, reads |-> 1]
    ELSE [f |-> fr, cr |-> c, stream |-> s, reads |-> 0]

\* variant: Scan reads on whatever f.err holds
FieldReaderScanNotSticky(fr, c, s, inp1, inp2) ==
    LET h == FieldReaderHeader([fr EXCEPT !.err = NoErr], c, s, inp1)
    IN  IF h.f.err # NoErr
        THEN [ok |-> FALSE, f |-> h.f, cr |-> h.cr, stream |-> h.stream,
              reads |-> h.reads]
        ELSE LET g == IF h.f.idx.isNil
                      THEN [h.f EXCEPT !.idx =
                               [isNil |-> FALSE,
                                map |-> BuildIdx(h.f.FieldNames.names)]]
                      ELSE h.f
                 rd == CrRead(h.cr, h.stream, inp2)
             IN  [ok |-> rd.err = NoErr,
                  f |-> [g EXCEPT !.row = rd.rec, !.err = rd.err],
                  cr |-> rd.cr, stream |-> rd.stream, reads |-> h.reads + 1]

\* FieldReader.Scan on the reader fr: nothing happens once f.err is set;
\* otherwise the header is read if FieldNames is nil, the index is built if
\* it is nil, and the next record is read into f.row
FieldReaderScan(fr, c, s, inp1, inp2) ==
    IF fr.err # NoErr
    THEN [ok |-> FALSE, f |-> fr, cr |-> c, stream |-> s, reads |-> 0]
    ELSE LET h == FieldReaderHeader(fr, c, s, inp1)
         IN  IF h.f.err # NoErr
             THEN [ok |-> FALSE, f |-> h.f, cr |-> h.cr, stream |-> h.stream,
                   reads |-> h.reads]
             ELSE LET g == IF h.f.idx.isNil
                           THEN [h.f EXCEPT !.idx =
                                    [isNil |-> FALSE,
                                     map |-> BuildIdx(h.f.FieldNames.names)]]
                           ELSE h.f
                      rd == CrRead(h.cr, h.stream, inp2)
                  IN  [ok |-> rd.err = NoErr,
                       f |-> [g EXCEPT !.row = rd.rec, !.err = rd.err],
                       cr |-> rd.cr, stream |-> rd.stream,
                       reads |-> h.reads + 1]

\* what the header read of Scan can find: nothing is read once f.err is set
\* or when FieldNames is set
DrawFieldNames(fr, c, s) ==
    IF fr.err # NoErr \/ ~fr.FieldNames.isNil THEN {EndOfStream}
    ELSE Draw(s, c)

\* what the read of the next record can find after the header read found
\* inp1: nothing is read once f.err is set
DrawRow(fr, c, s, inp1) ==
    IF fr.err # NoErr \/ FieldReaderHeader(fr, c, s, inp1).f.err # NoErr
    THEN {EndOfStream}
    ELSE Draw(FieldReaderHeader(fr, c, s, inp1).stream,
              FieldReaderHeader(fr, c, s, inp1).cr)

\* FieldReader.Err: io.EOF is not reported
FieldReaderErr(fr) == IF fr.err # EOF THEN fr.err ELSE NoErr

\* NewFieldReader(r), after which the caller may set FieldNames
InitFieldReader ==
    /\ stream = <<>>
    /\ o = [Comma |-> 44, FieldNames |-> NilNames]
    /\ cr = NewReader
    /\ reads = 0
    /\ pc = "fieldreader"
    /\ r = [idx |-> EmptyMap, row |-> <<>>]
    /\ yielded = <<>>
    /\ stopped = FALSE
    /\ ret = NoRet
    /\ panic = NoPanic
    /\ rows = <<>>
    /\ result = NoResult
    /\ shape = NoShape
    /\ v = <<>>
    /\ fieldIdx = NilFieldIdx
    /\ errs = <<>>
    /\ fieldReader \in [FieldNames : FieldNamesValues,
                        idx : {[isNil |-> TRUE, map |-> EmptyMap]},
                        row : {<<>>}, err : {NoErr}]

\* the caller calls f.Scan(); yielded keeps what the calls so far returned:
\* the row for true, f.err for false
CallScan ==
    /\ Len(yielded) <= MaxRecs + 1
    /\ \E inp1 \in DrawFieldNames(fieldReader, cr, stream) :
       \E inp2 \in DrawRow(fieldReader, cr, stream, inp1) :
       LET sc == FieldReaderScan(fieldReader, cr, stream, inp1, inp2)
       IN  /\ fieldReader' = sc.f
           /\ cr' = sc.cr
           /\ stream' = sc.stream
           /\ reads' = reads + sc.reads
           /\ yielded' = Append(yielded, IF sc.ok THEN RowElem(sc.f.row)
                                         ELSE ErrElem(sc.f.err))
           /\ ret' = [op |-> "Scan", name |-> "",
                      val |-> IF sc.ok THEN "true" ELSE "false",
                      map |-> EmptyMap]
    /\ UNCHANGED <<o, pc, r, stopped, panic, readAllVars, scanVars>>

\* the caller calls f.Err()
CallErr ==
    /\ ret' = [op |-> "Err", name |-> "", val |-> FieldReaderErr(fieldReader),
               map |-> EmptyMap]
    /\ UNCHANGED <<stream, o, cr, reads, pc, r, yielded, stopped, panic>>
    /\ UNCHANGED <<readAllVars, scanVars, fieldReader>>

NextFieldReader ==
    \/ CallScan
    \/ CallErr

SpecFieldReader == InitFieldReader /\ [][NextFieldReader]_vars

(* ---------------------------- properties of Rows ------------------------ *)

\* 1 when Rows takes the first record as the header, else 0
Hdr == IF o.FieldNames.isNil THEN 1 ELSE 0

\* reading line i of s fails: it does not parse, or it has another number of
\* fields than the first line
Fails(s, i) == s[i].kind = "bad" \/ Len(s[i].rec) # Len(s[1].rec)
HasFail(s) == \E i \in 1..Len(s) : Fails(s, i)
FailPos(s) ==
    CHOOSE i \in 1..Len(s) : Fails(s, i) /\ \A j \in 1..(i - 1) : ~Fails(s, j)
FailErr(s) == IF s[FailPos(s)].kind = "bad" THEN ErrParse ELSE ErrFieldCount

\* a header record followed by data records, all of which tokenize
WellFormed(s) == Len(s) >= 1 /\ ~HasFail(s)

\* the names the index is built from
ResolvedNames ==
    IF o.FieldNames.isNil THEN stream[1].rec ELSE o.FieldNames.names
\* Rows got past its header phase
IdxBuilt ==
    /\ pc # "start"
    /\ o.FieldNames.isNil => (Len(stream) >= 1 /\ stream[1].kind = "record")

Range(f) == {f[i] : i \in DOMAIN f}
Last(q) == q[Len(q)]

\* C1: on a well-formed input of a header and N data records, with FieldNames
\* nil, Rows yields (Row, nil) for the data records in source order, the i-th
\* Row backed by the i-th data record; a consumer that never stops gets
\* exactly N elements and none of them carries an error.
C1_RowsYieldsEveryRowInOrder ==
    (o.FieldNames.isNil /\ WellFormed(stream)) =>
        /\ Len(yielded) <= Len(stream) - 1
        /\ \A i \in 1..Len(yielded) : yielded[i] = RowElem(stream[i + 1].rec)
        /\ pc \in {"body", "panicked"} =>
              (Len(yielded) >= 1 /\ r.row = Last(yielded).row)
        /\ pc = "body" => Len(yielded) = Len(stream) - 1
        /\ (pc = "done" /\ ~stopped) =>
              (cr.eof /\ Len(yielded) = Len(stream) - 1)

C1_Witness ==
    /\ o.FieldNames.isNil /\ WellFormed(stream) /\ Len(stream) = 3
    /\ pc = "done" /\ ~stopped /\ cr.eof /\ Len(yielded) = 2
    /\ yielded[1].row # yielded[2].row

\* C2: a read error other than io.EOF is yielded once as (nil, err), as the
\* last element; the rows before the failing read were yielded as (Row, nil)
\* and no read follows the failing one.
C2_ReadErrorYieldedOnceAndLast ==
    LET n == Len(yielded)
        errAt == {i \in 1..n : yielded[i].err # NoErr}
    IN  /\ \A i \in 1..n : yielded[i].rowNil <=> yielded[i].err # NoErr
        /\ errAt \subseteq {n}
        /\ errAt # {} =>
              /\ pc = "done"
              /\ HasFail(stream)
              /\ reads = FailPos(stream)
              /\ n = (IF FailPos(stream) <= Hdr THEN 1
                      ELSE FailPos(stream) - Hdr)
              /\ yielded[n] = ErrElem(FailErr(stream))
              /\ \A i \in 1..(n - 1) : yielded[i] = RowElem(stream[i + Hdr].rec)
        /\ (pc = "done" /\ ~stopped /\ HasFail(stream)) => errAt = {n} /\ n > 0
        /\ reads <= Len(stream) + 1

C2_Witness ==
    /\ Len(yielded) = 2
    /\ ~yielded[1].rowNil
    /\ yielded[2] = ErrElem(ErrFieldCount)
    /\ pc = "done" /\ reads = 2 + Hdr

\* C5: Row.Field for a name whose position lies beyond the end of a short
\* record returns the empty string and does not fail.
C5_ShortRecordFieldIsEmpty ==
    (ret.op = "Field" /\ ret.name \in DOMAIN r.idx
        /\ r.idx[ret.name] >= Len(r.row)) =>
        (panic = NoPanic /\ ret.val = "")

\* C6: Row.Field returns the empty string, without failing, for a name that
\* is not a key of the index, and the record's value at the indexed position
\* for a name that is a key.
C6_FieldByName ==
    ret.op = "Field" =>
        IF ret.name \in DOMAIN r.idx
        THEN /\ panic = NoPanic
             /\ r.idx[ret.name] < Len(r.row)
             /\ ret.val = r.row[r.idx[ret.name] + 1]
        ELSE panic = NoPanic /\ ret.val = ""

\* C7: Row.Fields returns a map whose keys are exactly the resolved field
\* names, each mapped to the record's value at the name's position.
C7_FieldsIsTheRowByName ==
    ret.op = "Fields" =>
        /\ panic = NoPanic
        /\ DOMAIN ret.map = Range(ResolvedNames)
        /\ \A key \in DOMAIN ret.map :
              /\ r.idx[key] < Len(r.row)
              /\ ret.map[key] = r.row[r.idx[key] + 1]

\* C8: the index maps every name of the name list to the largest position at
\* which the name occurs, and has no other key.
C8_IndexLastOccurrenceWins ==
    IdxBuilt =>
        LET names == ResolvedNames
        IN  /\ DOMAIN r.idx = Range(names)
            /\ \A i \in 1..Len(names) :
                  /\ r.idx[names[i]] + 1 >= i
                  /\ names[r.idx[names[i]] + 1] = names[i]
                  /\ \A j \in 1..Len(names) :
                        names[j] = names[i] => j <= r.idx[names[i]] + 1

C8_Witness ==
    /\ IdxBuilt /\ pc = "body"
    /\ Len(ResolvedNames) = 2
    /\ ResolvedNames[1] = ResolvedNames[2]
    /\ r.idx[ResolvedNames[1]] = 1

\* C9: with FieldNames set (even to an empty list) no header is consumed and
\* the first record of the stream is the first row; with FieldNames nil the
\* first record supplies the names and the rows start at the second record.
C9_HeaderOnlyWhenFieldNamesNil ==
    /\ \A i \in 1..Len(yielded) :
          ~yielded[i].rowNil =>
              (i + Hdr <= Len(stream) /\ yielded[i].row = stream[i + Hdr].rec)
    /\ (~o.FieldNames.isNil /\ pc # "start" /\ Len(stream) >= 1
            /\ stream[1].kind = "record") =>
          (Len(yielded) >= 1 /\ yielded[1] = RowElem(stream[1].rec))
    /\ IdxBuilt => DOMAIN r.idx = Range(ResolvedNames)
    /\ pc = "body" => reads = Hdr + Len(yielded)

C9_Witness ==
    /\ o.FieldNames = [isNil |-> FALSE, names |-> <<>>]
    /\ Len(stream) = 2
    /\ pc = "done" /\ ~stopped
    /\ yielded = <<RowElem(stream[1].rec), RowElem(stream[2].rec)>>

\* C10: io.EOF is never yielded: an empty stream with FieldNames nil gives an
\* empty sequence, and a stream whose reads all succeed ends without an error
\* element.
C10_EOFIsNotAnError ==
    /\ \A i \in 1..Len(yielded) : yielded[i].err # EOF
    /\ (o.FieldNames.isNil /\ stream = <<>> /\ pc # "start") =>
          (pc = "done" /\ cr.eof /\ yielded = <<>> /\ reads = 1)
    /\ (pc = "done" /\ ~HasFail(stream)) =>
          \A i \in 1..Len(yielded) : yielded[i] = RowElem(stream[i + Hdr].rec)

C10_Witness ==
    /\ o.FieldNames.isNil /\ stream = <<>>
    /\ pc = "done" /\ cr.eof /\ reads = 1 /\ yielded = <<>>

(* ---------------------------- properties of ReadAll --------------------- *)

\* ReadAll or Scan is over: it returned or the program panicked
Over == pc \in {"done", "panicked"}

\* the largest position of key in names, counted from 0
LastPos(names, key) ==
    (CHOOSE i \in 1..Len(names) :
        names[i] = key /\ \A j \in 1..Len(names) : names[j] = key => j <= i) - 1

\* C3: ReadAll returns the Fields() maps of all data rows, in order, with a
\* nil error when every read up to the end of the stream succeeds, and a nil
\* list with the error when a read fails.
C3_ReadAllAllOrNothing ==
    /\ (Over /\ ~HasFail(stream) /\ (Hdr = 1 => stream # <<>>)) =>
          /\ result.returned
          /\ result.err = NoErr
          /\ Len(result.rows) = Len(stream) - Hdr
          /\ \A i \in 1..Len(result.rows) :
                /\ DOMAIN result.rows[i] = Range(ResolvedNames)
                /\ \A key \in DOMAIN result.rows[i] :
                      /\ LastPos(ResolvedNames, key) < Len(stream[i + Hdr].rec)
                      /\ result.rows[i][key] =
                            stream[i + Hdr].rec[LastPos(ResolvedNames, key) + 1]
    /\ (Over /\ HasFail(stream) /\ reads >= FailPos(stream)) =>
          /\ result.returned
          /\ result.rowsNil /\ result.rows = <<>>
          /\ result.err = FailErr(stream)

(* ---------------------------- properties of Scan ------------------------ *)

\* C4: for a struct with a field that can be bound, Scan yields the read
\* error of Rows, whichever read fails, and ends; it yields nil for every row
\* before, and the end of the stream adds no element.
C4_ScanYieldsReadErrors ==
    (shape.kind = "struct" /\ HasEligible(shape)) =>
        /\ (HasFail(stream) /\ reads >= FailPos(stream)) =>
              /\ pc = "done"
              /\ errs # <<>>
              /\ Last(errs) = FailErr(stream)
              /\ \A i \in 1..(Len(errs) - 1) : errs[i] = NoErr
        /\ (pc = "done" /\ ~HasFail(stream)) =>
              \A i \in 1..Len(errs) : errs[i] = NoErr

(* ---------------------------- early termination ---------------------- *)

\* C11: when the consumer stops after the k-th row the iterator returns at
\* once: it has made k reads, plus one for a header, nothing of the stream
\* was read beyond the k-th row, and every element yielded is a row.
C11_EarlyStopReadsNothingMore ==
    stopped =>
        /\ pc = "done"
        /\ Len(yielded) >= 1
        /\ \A i \in 1..Len(yielded) :
              ~yielded[i].rowNil /\ yielded[i].err = NoErr
        /\ reads = Len(yielded) + Hdr
        /\ Len(stream) = reads
        /\ ~cr.eof

C11_Witness ==
    /\ stopped /\ pc = "done"
    /\ o.FieldNames.isNil
    /\ Len(yielded) = 1 /\ reads = 2 /\ Len(stream) = 2

(* ---------------------------- properties of the record mapper --------- *)

\* field i of the struct sh is bound under the index idx: it can be bound and
\* its tag is a column name
BoundUnder(idx, sh, i) ==
    Eligible(sh.fields[i]) /\ sh.fields[i].tag \in DOMAIN idx

\* a row has just been scanned into the record
Scanned(p) == p \in {"scanbody", "rowscanbody"}

\* C12: scanning a row into a record sets every bound field to the record's
\* string at the field's column, and leaves every unbound field, a tagged
\* field without a column included, at the value it had before.
C12_ScanSetsBoundFieldsOnly ==
    [][shape.kind = "struct" =>
          /\ Len(v') = Len(shape.fields)
          /\ \A i \in 1..Len(shape.fields) :
                ~BoundUnder(r'.idx, shape, i) => v'[i] = v[i]
          /\ Scanned(pc') =>
                \A i \in 1..Len(shape.fields) :
                    BoundUnder(r'.idx, shape, i) =>
                        /\ r'.idx[shape.fields[i].tag] < Len(r'.row)
                        /\ v'[i] = r'.row[r'.idx[shape.fields[i].tag] + 1]
      ]_vars

C12_Witness ==
    /\ Scanned(pc)
    /\ shape = UserShape
    /\ DOMAIN r.idx = {"a"}
    /\ Len(yielded) = 2
    /\ yielded[1].row # yielded[2].row
    /\ v = <<r.row[1], "old", "old">>

\* C13: ScanAll returns one record per data row, in order, when every read
\* up to the end of the stream succeeds: the bound fields of the i-th record
\* hold the i-th row's strings at their columns, the unbound fields are
\* empty, and records appended earlier stay as they were; when a read fails
\* it returns a nil list and the error.
C13_ScanAllAllOrNothing ==
    shape.kind = "struct" =>
        /\ \A i \in 1..Len(rows) : \A j \in 1..Len(shape.fields) :
              IF BoundUnder(r.idx, shape, j)
              THEN /\ LastPos(ResolvedNames, shape.fields[j].tag)
                         < Len(stream[i + Hdr].rec)
                   /\ rows[i][j] = stream[i + Hdr].rec[
                         LastPos(ResolvedNames, shape.fields[j].tag) + 1]
              ELSE rows[i][j] = ""
        /\ (Over /\ ~HasFail(stream) /\ (Hdr = 1 => stream # <<>>)) =>
              /\ result.returned
              /\ result.err = NoErr
              /\ result.rows = rows
              /\ Len(rows) = Len(stream) - Hdr
        /\ (Over /\ HasFail(stream) /\ reads >= FailPos(stream)) =>
              /\ result.returned
              /\ result.rowsNil /\ result.rows = <<>>
              /\ result.err = FailErr(stream)

\* C14: the streaming Scan into a target that is not a struct ends in the
\* panic of buildFieldIdx: it yields no element, neither an error nor nil,
\* and it does not return normally.
C14_NonStructTargetPanics ==
    (shape.kind # "struct" /\ pc # "start") =>
        /\ errs = <<>>
        /\ pc = "panicked"
        /\ panic = PanicNotStruct

\* a field the claim calls never bound: no csv annotation or an empty one,
\* not of type string, or not exported
NeverBound(f) == f.tag = "" \/ f.typ # "string" \/ ~f.exported

\* C15: a field without a csv annotation, not of type string or not exported
\* is never written by Row.Scan or Scan, whatever the index contains, and a
\* struct of such fields only is scanned without a panic of the mapper and
\* without an element other than what Rows yielded.
C15_IneligibleFieldsNeverWritten ==
    [][shape.kind = "struct" =>
          /\ \A i \in 1..Len(shape.fields) :
                NeverBound(shape.fields[i]) => v'[i] = v[i]
          /\ (\A i \in 1..Len(shape.fields) : NeverBound(shape.fields[i])) =>
                /\ panic' \in {NoPanic, PanicNotStruct}
                /\ errs' # errs =>
                      errs' = Append(errs, yielded'[Len(yielded')].err)
      ]_vars

C15_Witness ==
    /\ Scanned(pc)
    /\ shape = SkippedShape
    /\ Len(yielded) = 2
    /\ "a" \in DOMAIN r.idx
    /\ r.row[r.idx["a"] + 1] # "old"
    /\ v = <<"old", "old", "old">>

(* ---------------------------- the field delimiter --------------------- *)

\* C16: Rows reads with ',' when Comma is 0, with 0x00 when Comma is NULL and
\* with Comma itself otherwise; every line read is split at that character,
\* and with Comma = NULL no read fails because of the delimiter.
C16_DelimiterResolution ==
    pc # "start" =>
        /\ cr.Comma = (IF o.Comma = 0 THEN 44
                       ELSE IF o.Comma = NULL THEN 0 ELSE o.Comma)
        /\ \A i \in 1..Len(stream) :
              stream[i].rec = Split(stream[i].raw, cr.Comma)
        /\ o.Comma = NULL =>
              /\ \A i \in 1..Len(yielded) : yielded[i].err # ErrInvalidDelim
              /\ reads >= 1 => (stream # <<>> \/ cr.eof)

\* the binding plan of the struct sh under the index idx
PlanUnder(idx, sh) ==
    [i \in 1..Len(sh.fields) |->
        IF BoundUnder(idx, sh, i) THEN idx[sh.fields[i].tag] ELSE -1]

\* C17: Scan computes the binding plan once, on the first element Rows
\* yields: from then on the plan is set, for a struct without fields too,
\* no later step changes it, and every row is scanned with it.
C17_PlanComputedOnce ==
    [][/\ ~fieldIdx.isNil => fieldIdx' = fieldIdx
       /\ yielded' = yielded => fieldIdx' = fieldIdx
       /\ (fieldIdx.isNil /\ yielded' # yielded /\ pc' # "panicked") =>
             /\ yielded = <<>>
             /\ ~fieldIdx'.isNil
             /\ fieldIdx'.at = PlanUnder(r'.idx, shape)
       /\ Len(yielded') >= 1 /\ pc' # "panicked" => ~fieldIdx'.isNil
       /\ pc' = "scanbody" => v' = scan(r'.row, fieldIdx'.at, v).vals
      ]_vars

C17_Witness ==
    /\ pc = "scanbody"
    /\ shape = EmptyShape
    /\ Len(yielded) = 2
    /\ fieldIdx = [isNil |-> FALSE, at |-> <<>>]

(* ---------------------------- the index and the options -------------- *)

\* C18: the index of a traversal is built once, from the resolved names
\* alone, by the step that starts the traversal; no later read, yield, Field
\* or Fields call changes it, while the Row's record changes with every read.
C18_IndexBuiltOnceNeverMutated ==
    [][/\ pc # "start" => r'.idx = r.idx
       /\ (pc = "start" /\ IdxBuilt') =>
             /\ DOMAIN r'.idx = Range(ResolvedNames')
             /\ \A key \in DOMAIN r'.idx :
                   r'.idx[key] = LastPos(ResolvedNames', key)
       /\ (pc = "start" /\ ~IdxBuilt') => r'.idx = EmptyMap
       /\ (pc # "start" /\ Len(yielded') > Len(yielded)
             /\ yielded'[Len(yielded')].err = NoErr) =>
             r'.row = stream'[Len(stream')].rec
      ]_vars

C18_Witness ==
    /\ pc = "body"
    /\ o.FieldNames.isNil
    /\ Len(yielded) = 2
    /\ yielded[1].row # yielded[2].row
    /\ ret.op = "Fields"
    /\ r.row # stream[1].rec
    /\ DOMAIN r.idx = Range(stream[1].rec)

ScanStopped == yielded # <<>> /\ Last(yielded).rowNil

\* C20: once FieldReader.Scan has returned false, a later Scan returns false
\* without a read and without a change of the row or the index, and Err
\* returns nil exactly when the end of the stream stopped the reader, and
\* the error of the failed read otherwise.
C20_FieldReaderStickyStop ==
    [][ScanStopped =>
          /\ reads' = reads /\ stream' = stream /\ cr' = cr
          /\ fieldReader'.row = fieldReader.row
          /\ fieldReader'.idx = fieldReader.idx
          /\ yielded' # yielded =>
                /\ ret'.op = "Scan" /\ ret'.val = "false"
                /\ Last(yielded') = Last(yielded)
          /\ ret'.op = "Err" =>
                /\ ret'.val = (IF HasFail(stream) THEN FailErr(stream)
                               ELSE NoErr)
                /\ ret'.val = NoErr <=> cr.eof
      ]_vars

C20_Witness ==
    /\ Len(yielded) = 4
    /\ ~yielded[2].rowNil
    /\ yielded[3] = ErrElem(ErrFieldCount)
    /\ yielded[4] = ErrElem(ErrFieldCount)
    /\ ret.op = "Err" /\ ret.val = ErrFieldCount

====
